---- MODULE Spec2Model ----
(***************************************************************************)
(* Model of the orchestration script src/run.ts of LimKianAn/steak and of  *)
(* the one generated SDK method it uses                                    *)
(* (src/.api/apis/blockdaemon/index.ts, postEthereumStakeIntent / auth).   *)
(*                                                                         *)
(* The script is one coroutine.  Its suspension points are the four        *)
(* awaited network calls and the three blocking confirm() prompts.  The    *)
(* environment (the chain RPC endpoint, the staking API and the user at    *)
(* the console) decides how each suspension ends.                          *)
(***************************************************************************)
EXTENDS Integers, Sequences, FiniteSets, TLC

VARIABLES
    env,                  \* Bun.env, read-only
    pc,                   \* position of the script
    contractAddr,         \* var contractAddr
    sender,               \* const sender (address of the derived account)
    balWei,               \* const balWei: <<>> before the query, <<b>> after
    shouldSend,           \* answer of the first confirm()
    shouldCreateUnsigned, \* answer of the second confirm()
    shouldSignAndSend,    \* answer of the third confirm()
    authKey,              \* credential attached to the SDK core
    intent,               \* const intent: <<>> before the response, <<r>> after
    calls,                \* network calls issued so far, in order
    receipts,             \* receipts returned by sendTransaction, in order
    prompts,              \* confirmation prompts presented so far, in order
    out,                  \* lines written to the console, in order
    exitStatus,           \* <<>> while running, <<code>> once the process ended
    visited,              \* flow states entered so far, in order
    sdkCalls,             \* methods of the SDK instance invoked so far, in order
    sdkSettings,          \* config and server set on the SDK core
    conv                  \* a unit conversion being carried out

vars == <<env, pc, contractAddr, sender, balWei, shouldSend,
          shouldCreateUnsigned, shouldSignAndSend, authKey, intent, calls,
          receipts, prompts, out, exitStatus, visited, sdkCalls,
          sdkSettings, conv>>

----------------------------------------------------------------------------
(* Bounds of the model *)

MaxBalance == 2

\* the converted amounts are one of SampleDigits followed by up to MaxZeros
\* zeros
MaxZeros == 18

\* a client of the SDK invokes at most MaxSdkCalls of its methods, at most
\* MaxFetches of them endpoint methods
MaxSdkCalls == 2
MaxFetches == 1

----------------------------------------------------------------------------
(* Values *)

Undefined == "undefined"

MainnetContract == "0x3f124c700fb5e741f128e28985267d44f56b242f"
HoleskyContract == "0x0b6e07c5ead5596c1f26ca2f6b97050cec853671"
OtherContract == "0x00000000219ab540356cbb839cbe05303d7705fa"

\* the cases of the switch on Bun.env.NETWORK
KnownNetworks == {"mainnet", "holesky"}

\* values Bun.env.NETWORK takes in the model (Undefined: variable absent)
Networks == KnownNetworks \cup {"goerli", Undefined}

\* values an environment variable takes when it is not set properly:
\* malformed, empty, absent
UnusableValues == {"malformed", "", Undefined}

ValidPrivateKeys == {"0xprivkey"}
PrivateKeys == ValidPrivateKeys \cup UnusableValues
ReceiverAddresses == {"0xreceiver"}
ExecutionApiKeys == {"exec-key"}
StakingApiKeys == {"staking-key"}

\* Bun.env: any of the variables may be set improperly (those that are, are
\* so in the same way), and nothing keeps the receiver from being a staking
\* contract
Envs ==
    {e \in [NETWORK : Networks,
            EXECUTION_API_KEY : ExecutionApiKeys \cup UnusableValues,
            STAKING_API_KEY : StakingApiKeys \cup UnusableValues,
            PRIVATE_KEY : PrivateKeys,
            RECEIVER_ADDRESS : ReceiverAddresses \cup UnusableValues
                                   \cup {HoleskyContract}] :
        \E u \in UnusableValues :
            {e.EXECUTION_API_KEY, e.STAKING_API_KEY, e.PRIVATE_KEY,
             e.RECEIVER_ADDRESS} \cap UnusableValues \subseteq {u}}

\* an environment with every variable set properly
IsProperEnv(e) ==
    /\ e.NETWORK \in KnownNetworks
    /\ e.EXECUTION_API_KEY \in ExecutionApiKeys
    /\ e.STAKING_API_KEY \in StakingApiKeys
    /\ e.PRIVATE_KEY \in ValidPrivateKeys
    /\ e.RECEIVER_ADDRESS \in ReceiverAddresses

\* address of the account web3.eth.accounts.wallet.add derives from a key
AddressOf(key) == "0xsender"


\* a JavaScript number with the shortest decimal digits m and the decimal
\* exponent e, standing for m * 10^e (m is not a multiple of 10)
Dec(m, e) == [m |-> m, e |-> e]

\* decimal strings are sequences of one-character strings
Digits == <<"0", "1", "2", "3", "4", "5", "6", "7", "8", "9">>

Zeros(n) == [i \in 1..n |-> "0"]

\* the value field of a call that carries no amount
NoValue == <<>>

RECURSIVE NatToString(_)
\* the decimal digits of a small natural number
NatToString(n) ==
    IF n < 10 THEN <<Digits[n + 1]>>
    ELSE NatToString(n \div 10) \o <<Digits[(n % 10) + 1]>>

\* const amountInETH = 0.000001
amountInETH == Dec(1, -6)
\* const amountInGwei = 32 * 10 ** 9
amountInGwei == Dec(32, 9)

\* balances the chain reports, in wei: 0, 1 ether, 33 ether, 65 ether, ...
Balances ==
    {<<"0">>} \cup {NatToString(32 * b - 31) \o Zeros(18) : b \in 1..MaxBalance}

\* number of zeros of the denomination of a unit (ether 10^18, gwei 10^9)
UnitExponent(unit) == IF unit = "ether" THEN 18 ELSE IF unit = "gwei" THEN 9 ELSE 0

\* Number.prototype.toString (amountInGwei.toString(), String(amountInETH)):
\* with k digits and n = k + e, plain digits for k <= n <= 21, a decimal
\* point inside for 0 < n < k, "0.00..." for -6 < n <= 0, and exponent
\* notation otherwise
DecToString(d) ==
    LET digits == NatToString(d.m)
        k == Len(digits)
        n == k + d.e
        expo == IF n - 1 < 0
                THEN <<"e", "-">> \o NatToString(1 - n)
                ELSE <<"e", "+">> \o NatToString(n - 1)
    IN  IF k <= n /\ n <= 21 THEN digits \o Zeros(n - k)
        ELSE IF 0 < n /\ n <= 21
             THEN SubSeq(digits, 1, n) \o <<".">> \o SubSeq(digits, n + 1, k)
        ELSE IF -6 < n /\ n <= 0 THEN <<"0", ".">> \o Zeros(-n) \o digits
        ELSE IF k = 1 THEN digits \o expo
        ELSE <<digits[1], ".">> \o SubSeq(digits, 2, k) \o expo

\* an integer below 10^15 is below 2^53 and so an exact JavaScript number
IsExactInteger(d) == d.e >= 0 /\ Len(NatToString(d.m)) + d.e <= 15

RECURSIVE StripLeadingZeros(_)
\* BigInt(string).toString(): the digits without leading zeros
StripLeadingZeros(s) ==
    IF Len(s) <= 1 THEN (IF s = <<>> THEN <<"0">> ELSE s)
    ELSE IF s[1] = "0" THEN StripLeadingZeros(Tail(s))
    ELSE s

RECURSIVE StripTrailingZeros(_)
\* string.replace(/\.?0+$/, '') on a string of digits
StripTrailingZeros(s) ==
    IF s = <<>> THEN s
    ELSE IF s[Len(s)] = "0" THEN StripTrailingZeros(SubSeq(s, 1, Len(s) - 1))
    ELSE s

\* string.padStart(n, '0')
PadStart(s, n) == IF Len(s) >= n THEN s ELSE Zeros(n - Len(s)) \o s

\* position of the decimal point of a string, 0 when it has none
PointAt(s) ==
    IF \E i \in 1..Len(s) : s[i] = "."
    THEN CHOOSE i \in 1..Len(s) : s[i] = "." /\ \A j \in 1..(i - 1) : s[j] # "."
    ELSE 0

\* string.split('.').concat('')[0] and [1]
IntegerPart(s) == IF PointAt(s) = 0 THEN s ELSE SubSeq(s, 1, PointAt(s) - 1)
FractionPart(s) == IF PointAt(s) = 0 THEN <<>> ELSE SubSeq(s, PointAt(s) + 1, Len(s))

\* bigint * denomination, the denomination being 10^zeros
TimesPowerOfTen(value, zeros) ==
    IF value = <<"0">> THEN value ELSE value \o Zeros(zeros)

\* web3.utils.toWei applied to a decimal string: the digits without the
\* point as a BigInt, times the denomination, less the fraction's length
toWeiString(s, unit) ==
    LET value == StripLeadingZeros(IntegerPart(s) \o FractionPart(s))
        updatedValue == TimesPowerOfTen(value, UnitExponent(unit))
        decimals == Len(FractionPart(s))
        padded == PadStart(updatedValue, decimals)
    IN  IF decimals = 0 THEN updatedValue
        ELSE SubSeq(padded, 1, Len(padded) - decimals)

\* web3.utils.toWei(amount, unit) of a number: the number is turned into its
\* string first
toWei(amount, unit) == toWeiString(DecToString(amount), unit)

\* mutant: the fraction is cut to six decimals, as a display format would
fromWei_SixDecimals(s, unit) ==
    LET value == StripLeadingZeros(s)
        zeros == UnitExponent(unit)
        padded == PadStart(value, zeros)
        integer == SubSeq(padded, 1, Len(padded) - zeros)
        fraction == StripTrailingZeros(
                        SubSeq(padded, Len(padded) - zeros + 1,
                               Len(padded) - zeros + 6))
    IN  IF zeros <= 0 THEN value
        ELSE IF integer = <<>> THEN <<"0", ".">> \o fraction
        ELSE IF fraction = <<>> THEN integer
        ELSE integer \o <<".">> \o fraction

\* web3.utils.fromWei(value, unit) of a decimal string of wei
fromWei(s, unit) ==
    LET value == StripLeadingZeros(s)
        zeros == UnitExponent(unit)
        padded == PadStart(value, zeros)
        integer == SubSeq(padded, 1, Len(padded) - zeros)
        fraction == StripTrailingZeros(
                        SubSeq(padded, Len(padded) - zeros + 1, Len(padded)))
    IN  IF zeros <= 0 THEN value
        ELSE IF integer = <<>> THEN <<"0", ".">> \o fraction
        ELSE IF fraction = <<>> THEN integer
        ELSE integer \o <<".">> \o fraction

\* bodies of a 200 response of POST /v1/ethereum/{network}/stake-intents
\* (data.ethereum is optional in the generated response type)
HexPayloads == {"0xdeposit1", "0xdeposit2"}
ResponseContracts == {MainnetContract, HoleskyContract, OtherContract}
IntentResponses ==
    [hasEthereum : {TRUE}, unsigned_transaction : HexPayloads,
     contract_address : ResponseContracts]
    \cup {[hasEthereum |-> FALSE, unsigned_transaction |-> Undefined,
           contract_address |-> Undefined]}

\* error responses the generated method documents
IntentErrorCodes == {"400", "401", "500", "503"}

\* receipts of a mined transaction
ReceiptStatuses == {"success", "reverted"}

Answers == {"yes", "no"}

----------------------------------------------------------------------------
(* Helpers *)

\* args: the arguments an SDK method hands to the core after path and verb
NoCall == [kind |-> "none", status |-> "none", path |-> Undefined,
           verb |-> Undefined, network |-> Undefined, auth |-> Undefined,
           from |-> Undefined, to |-> Undefined, value |-> NoValue,
           data |-> Undefined, args |-> <<>>, error |-> Undefined]

\* indices of the calls that have been issued and have not completed
InFlight == {i \in 1..Len(calls) : calls[i].status = "pending"}

CallsOfKind(k) == {i \in 1..Len(calls) : calls[i].kind = k}

Complete(status, err) ==
    [calls EXCEPT ![Len(calls)] = [@ EXCEPT !.status = status, !.error = err]]

\* mutant: the rejection is caught and the process ends with status 0
Abort_Status0 ==
    /\ pc' = "Aborted"
    /\ exitStatus' = <<0>>

\* an uncaught rejection of a top-level await ends the process with an error
Abort ==
    /\ pc' = "Aborted"
    /\ exitStatus' = <<1>>

\* console.log(`Network ${Bun.env.NETWORK} not supported`)
NotSupportedLine(network) == "Network " \o network \o " not supported"

\* process.exit(0)
Exit0 ==
    /\ pc' = "Exited"
    /\ exitStatus' = <<0>>

----------------------------------------------------------------------------
(* Initial state: modules imported (SDK constructed, no credential), line 4
   printed, the switch not yet executed *)

Init ==
    /\ env \in Envs
    /\ pc = "ResolveConfig"
    /\ contractAddr = ""
    /\ sender = Undefined
    /\ balWei = <<>>
    /\ shouldSend = "unset"
    /\ shouldCreateUnsigned = "unset"
    /\ shouldSignAndSend = "unset"
    /\ authKey = Undefined
    /\ intent = <<>>
    /\ calls = <<>>
    /\ receipts = <<>>
    /\ prompts = <<>>
    /\ out = <<"banner">>
    /\ exitStatus = <<>>
    /\ visited = <<"ResolveConfig">>
    /\ sdkCalls = <<>>
    /\ sdkSettings = [config |-> <<>>, server |-> <<>>]
    /\ conv = <<>>

----------------------------------------------------------------------------
(* The static table of the switch (run.ts lines 17-22) *)

\* mutant: the two addresses are entered under each other's network
ContractAddrTable_Swapped(network) ==
    IF network = "mainnet" THEN HoleskyContract
    ELSE IF network = "holesky" THEN MainnetContract
    ELSE ""

ContractAddrTable(network) ==
    IF network = "mainnet" THEN MainnetContract
    ELSE IF network = "holesky" THEN HoleskyContract
    ELSE ""

----------------------------------------------------------------------------
(* Call records *)

\* web3.eth.getBalance(sender.address)
BalanceCall(addr) ==
    [NoCall EXCEPT !.kind = "getBalance", !.status = "pending",
                   !.network = env.NETWORK, !.auth = env.EXECUTION_API_KEY,
                   !.from = addr]

\* web3.eth.sendTransaction({from, to, value, data})
TransactionCall(kind, from, to, value, data) ==
    [NoCall EXCEPT !.kind = kind, !.status = "pending",
                   !.network = env.NETWORK, !.auth = env.EXECUTION_API_KEY,
                   !.from = from, !.to = to, !.value = value, !.data = data]

\* this.core.fetch(path, verb, ...args): one HTTP request carrying the
\* credential attached to the core
Fetch(kind, path, verb, args) ==
    [NoCall EXCEPT !.kind = kind, !.status = "pending", !.path = path,
                   !.verb = verb, !.auth = authKey, !.args = args]

\* mutant: the metadata (the network path parameter) is not handed on
postEthereumStakeIntent_DropsMetadata(body, metadata) ==
    Fetch("createIntent", "/v1/ethereum/{network}/stake-intents", "post",
          <<body>>)

\* SDK.postEthereumStakeIntent(body, metadata):
\* this.core.fetch('/v1/ethereum/{network}/stake-intents', 'post', body, metadata)
postEthereumStakeIntent(body, metadata) ==
    Fetch("createIntent", "/v1/ethereum/{network}/stake-intents", "post",
          <<body, metadata>>)

\* an invocation of a method of the SDK instance with its arguments
SdkCall(method, args) == [method |-> method, args |-> args]

\* mutant: the stake is to be withdrawn to the receiver of the test transfer
StakeIntentBody_ToReceiver ==
    [stakes |-> <<[amount |-> DecToString(amountInGwei),
                   withdrawal_address |-> env.RECEIVER_ADDRESS]>>]

\* the body run.ts passes to postEthereumStakeIntent (lines 68-75)
StakeIntentBody ==
    [stakes |-> <<[amount |-> DecToString(amountInGwei),
                   withdrawal_address |-> sender]>>]

\* mutant: the intent is always created for mainnet
StakeIntentMetadata_Mainnet == [network |-> "mainnet"]

\* the metadata run.ts passes to postEthereumStakeIntent (line 76)
StakeIntentMetadata == [network |-> env.NETWORK]

\* recipient of the deposit transaction (run.ts line 90: to: contractAddr)
DepositRecipient == contractAddr

\* data of the deposit transaction (run.ts line 92: intent?.unsigned_transaction)
DepositData ==
    IF intent # <<>> /\ intent[1].hasEthereum
    THEN intent[1].unsigned_transaction
    ELSE Undefined

----------------------------------------------------------------------------
(* The script, one action per flow state and per way a suspension ends *)

\* mutant: the default case does not call process.exit
ResolveConfig_NoExit ==
    /\ pc = "ResolveConfig"
    /\ IF env.NETWORK \in KnownNetworks
       THEN /\ contractAddr' = ContractAddrTable(env.NETWORK)
            /\ out' = out
       ELSE /\ contractAddr' = contractAddr
            /\ out' = Append(out, NotSupportedLine(env.NETWORK))
    /\ pc' = "QueryBalance"
    /\ visited' = Append(visited, "QueryBalance")
    /\ UNCHANGED <<env, sdkSettings, conv, sender, balWei, shouldSend, shouldCreateUnsigned,
                   shouldSignAndSend, authKey, sdkCalls, intent, calls, receipts,
                   prompts, exitStatus>>

\* mutant: the default case exits without printing the diagnostic
ResolveConfig_NoDiagnostic ==
    /\ pc = "ResolveConfig"
    /\ IF env.NETWORK \in KnownNetworks
       THEN /\ contractAddr' = ContractAddrTable(env.NETWORK)
            /\ pc' = "QueryBalance"
            /\ visited' = Append(visited, "QueryBalance")
            /\ UNCHANGED exitStatus
       ELSE /\ Exit0
            /\ UNCHANGED <<contractAddr, visited>>
    /\ UNCHANGED <<env, sdkSettings, conv, sender, balWei, shouldSend,
                   shouldCreateUnsigned, shouldSignAndSend, authKey, sdkCalls,
                   intent, calls, receipts, prompts, out>>

\* mutant: on a known network the switch also insists on usable keys
ResolveConfig_RequiresKeys ==
    /\ pc = "ResolveConfig"
    /\ IF /\ env.NETWORK \in KnownNetworks
          /\ {env.EXECUTION_API_KEY, env.STAKING_API_KEY, env.PRIVATE_KEY,
              env.RECEIVER_ADDRESS} \cap UnusableValues = {}
       THEN /\ contractAddr' = ContractAddrTable(env.NETWORK)
            /\ pc' = "QueryBalance"
            /\ visited' = Append(visited, "QueryBalance")
            /\ UNCHANGED <<out, exitStatus>>
       ELSE /\ out' = Append(out, NotSupportedLine(env.NETWORK))
            /\ Exit0
            /\ UNCHANGED <<contractAddr, visited>>
    /\ UNCHANGED <<env, sdkSettings, conv, sender, balWei, shouldSend,
                   shouldCreateUnsigned, shouldSignAndSend, authKey, sdkCalls,
                   intent, calls, receipts, prompts>>

\* lines 15-26: switch (Bun.env.NETWORK)
ResolveConfig ==
    /\ pc = "ResolveConfig"
    /\ IF env.NETWORK \in KnownNetworks
       THEN /\ contractAddr' = ContractAddrTable(env.NETWORK)
            /\ pc' = "QueryBalance"
            /\ visited' = Append(visited, "QueryBalance")
            /\ UNCHANGED <<out, exitStatus>>
       ELSE /\ out' = Append(out, NotSupportedLine(env.NETWORK))
            /\ Exit0
            /\ UNCHANGED <<contractAddr, visited>>
    /\ UNCHANGED <<env, sdkSettings, conv, sender, balWei, shouldSend, shouldCreateUnsigned,
                   shouldSignAndSend, authKey, sdkCalls, intent, calls, receipts,
                   prompts>>

\* lines 28-35: new Web3, wallet.add (throws on a malformed key),
\* getBalance issued and awaited
QueryBalance ==
    /\ pc = "QueryBalance"
    /\ IF env.PRIVATE_KEY \in ValidPrivateKeys
       THEN /\ sender' = AddressOf(env.PRIVATE_KEY)
            /\ out' = Append(out, "sender address")
            /\ calls' = Append(calls, BalanceCall(AddressOf(env.PRIVATE_KEY)))
            /\ pc' = "AwaitBalance"
            /\ UNCHANGED exitStatus
       ELSE /\ Abort
            /\ UNCHANGED <<sender, out, calls>>
    /\ UNCHANGED <<env, sdkSettings, conv, contractAddr, balWei, shouldSend, shouldCreateUnsigned,
                   shouldSignAndSend, authKey, sdkCalls, intent, receipts, prompts,
                   visited>>

\* mutant: with nothing to spend the run ends instead of asking
GetBalanceReturns_RequiresFunds ==
    /\ pc = "AwaitBalance"
    /\ \E b \in Balances :
        /\ balWei' = <<b>>
        /\ IF b = <<"0">>
           THEN /\ Exit0
                /\ UNCHANGED <<prompts, visited>>
           ELSE /\ prompts' = Append(prompts, "send test transfer")
                /\ pc' = "ConfirmTestTransfer"
                /\ visited' = Append(visited, "ConfirmTestTransfer")
                /\ UNCHANGED exitStatus
    /\ calls' = Complete("ok", Undefined)
    /\ out' = Append(out, "sender balance")
    /\ UNCHANGED <<env, sdkSettings, conv, contractAddr, sender, shouldSend,
                   shouldCreateUnsigned, shouldSignAndSend, authKey, sdkCalls,
                   intent, receipts>>

\* lines 35-42: the balance arrives, is printed, the first prompt is shown
GetBalanceReturns ==
    /\ pc = "AwaitBalance"
    /\ \E b \in Balances : balWei' = <<b>>
    /\ calls' = Complete("ok", Undefined)
    /\ out' = Append(out, "sender balance")
    /\ prompts' = Append(prompts, "send test transfer")
    /\ pc' = "ConfirmTestTransfer"
    /\ visited' = Append(visited, "ConfirmTestTransfer")
    /\ UNCHANGED <<env, sdkSettings, conv, contractAddr, sender, shouldSend, shouldCreateUnsigned,
                   shouldSignAndSend, authKey, sdkCalls, intent, receipts, exitStatus>>

\* mutant: the rejection of getBalance is caught and the flow goes on
GetBalanceFails_Swallowed ==
    /\ pc = "AwaitBalance"
    /\ calls' = Complete("failed", "rpc")
    /\ prompts' = Append(prompts, "send test transfer")
    /\ pc' = "ConfirmTestTransfer"
    /\ visited' = Append(visited, "ConfirmTestTransfer")
    /\ UNCHANGED <<env, sdkSettings, conv, contractAddr, sender, balWei, shouldSend,
                   shouldCreateUnsigned, shouldSignAndSend, authKey, sdkCalls, intent,
                   receipts, out, exitStatus>>

\* line 35: await web3.eth.getBalance rejects
GetBalanceFails ==
    /\ pc = "AwaitBalance"
    /\ calls' = Complete("failed", "rpc")
    /\ Abort
    /\ UNCHANGED <<env, sdkSettings, conv, contractAddr, sender, balWei, shouldSend,
                   shouldCreateUnsigned, shouldSignAndSend, authKey, sdkCalls, intent,
                   receipts, prompts, out, visited>>

\* mutant: the answer is ignored, the transfer is always sent
AnswerTestTransfer_Ignored ==
    /\ pc = "ConfirmTestTransfer"
    /\ \E a \in Answers : shouldSend' = a
    /\ pc' = "SendTestTransfer"
    /\ visited' = Append(visited, "SendTestTransfer")
    /\ UNCHANGED <<env, sdkSettings, conv, contractAddr, sender, balWei, shouldCreateUnsigned,
                   shouldSignAndSend, authKey, sdkCalls, intent, calls, receipts,
                   prompts, out, exitStatus>>

\* lines 40-44: confirm() returns, if (shouldSend)
AnswerTestTransfer ==
    /\ pc = "ConfirmTestTransfer"
    /\ \E a \in Answers :
        /\ shouldSend' = a
        /\ pc' = IF a = "yes" THEN "SendTestTransfer" ELSE "Authenticate"
        /\ visited' = Append(visited, pc')
    /\ UNCHANGED <<env, sdkSettings, conv, contractAddr, sender, balWei, shouldCreateUnsigned,
                   shouldSignAndSend, authKey, sdkCalls, intent, calls, receipts,
                   prompts, out, exitStatus>>

\* mutant: sendTransaction is not awaited
SendTestTransfer_NotAwaited ==
    /\ pc = "SendTestTransfer"
    /\ out' = Append(out, "sending")
    /\ calls' = Append(calls,
          TransactionCall("testTransfer", sender, env.RECEIVER_ADDRESS,
                          toWei(amountInETH, "ether"), Undefined))
    /\ pc' = "Authenticate"
    /\ visited' = Append(visited, "Authenticate")
    /\ UNCHANGED <<env, sdkSettings, conv, contractAddr, sender, balWei, shouldSend,
                   shouldCreateUnsigned, shouldSignAndSend, authKey, sdkCalls, intent,
                   receipts, prompts, exitStatus>>

\* mutant: the test transfer goes to the staking contract
SendTestTransfer_ToContract ==
    /\ pc = "SendTestTransfer"
    /\ out' = Append(out, "sending")
    /\ calls' = Append(calls,
          TransactionCall("testTransfer", sender, contractAddr,
                          toWei(amountInETH, "ether"), Undefined))
    /\ pc' = "AwaitTestTransfer"
    /\ UNCHANGED <<env, sdkSettings, conv, contractAddr, sender, balWei,
                   shouldSend, shouldCreateUnsigned, shouldSignAndSend,
                   authKey, sdkCalls, intent, receipts, prompts, exitStatus,
                   visited>>

\* lines 45-50: the test transfer is issued and awaited
SendTestTransfer ==
    /\ pc = "SendTestTransfer"
    /\ out' = Append(out, "sending")
    /\ calls' = Append(calls,
          TransactionCall("testTransfer", sender, env.RECEIVER_ADDRESS,
                          toWei(amountInETH, "ether"), Undefined))
    /\ pc' = "AwaitTestTransfer"
    /\ UNCHANGED <<env, sdkSettings, conv, contractAddr, sender, balWei, shouldSend,
                   shouldCreateUnsigned, shouldSignAndSend, authKey, sdkCalls, intent,
                   receipts, prompts, exitStatus, visited>>

\* mutant: after the receipt the flow jumps over steak.auth
TestTransferReturns_SkipAuth ==
    /\ pc = "AwaitTestTransfer"
    /\ \E r \in ReceiptStatuses : receipts' = Append(receipts, r)
    /\ calls' = Complete("ok", Undefined)
    /\ out' = Append(out, "receipt")
    /\ prompts' = Append(prompts, "create unsigned")
    /\ pc' = "ConfirmCreateIntent"
    /\ visited' = Append(visited, "ConfirmCreateIntent")
    /\ UNCHANGED <<env, sdkSettings, conv, contractAddr, sender, balWei, shouldSend,
                   shouldCreateUnsigned, shouldSignAndSend, authKey, sdkCalls, intent,
                   exitStatus>>

\* mutant: a receipt reporting a reverted transaction stops the run
TestTransferReturns_ChecksStatus ==
    /\ pc = "AwaitTestTransfer"
    /\ \E r \in ReceiptStatuses :
        /\ receipts' = Append(receipts, r)
        /\ IF r = "success"
           THEN /\ pc' = "Authenticate"
                /\ visited' = Append(visited, "Authenticate")
                /\ UNCHANGED exitStatus
           ELSE /\ Abort
                /\ UNCHANGED visited
    /\ calls' = Complete("ok", Undefined)
    /\ out' = Append(out, "receipt")
    /\ UNCHANGED <<env, sdkSettings, conv, contractAddr, sender, balWei,
                   shouldSend, shouldCreateUnsigned, shouldSignAndSend,
                   authKey, sdkCalls, intent, prompts>>

\* lines 46-51: the receipt arrives and is printed
TestTransferReturns ==
    /\ pc = "AwaitTestTransfer"
    /\ \E r \in ReceiptStatuses : receipts' = Append(receipts, r)
    /\ calls' = Complete("ok", Undefined)
    /\ out' = Append(out, "receipt")
    /\ pc' = "Authenticate"
    /\ visited' = Append(visited, "Authenticate")
    /\ UNCHANGED <<env, sdkSettings, conv, contractAddr, sender, balWei, shouldSend,
                   shouldCreateUnsigned, shouldSignAndSend, authKey, sdkCalls, intent,
                   prompts, exitStatus>>

\* line 46: await web3.eth.sendTransaction rejects
TestTransferFails ==
    /\ pc = "AwaitTestTransfer"
    /\ calls' = Complete("failed", "rpc")
    /\ Abort
    /\ UNCHANGED <<env, sdkSettings, conv, contractAddr, sender, balWei, shouldSend,
                   shouldCreateUnsigned, shouldSignAndSend, authKey, sdkCalls, intent,
                   receipts, prompts, out, visited>>

\* mutant: the key of the execution API is attached instead
Authenticate_WrongKey ==
    /\ pc = "Authenticate"
    /\ out' = Append(out, "steak banner")
    /\ authKey' = env.EXECUTION_API_KEY
    /\ sdkCalls' = Append(sdkCalls,
          SdkCall("auth", <<env.EXECUTION_API_KEY>>))
    /\ prompts' = Append(prompts, "create unsigned")
    /\ pc' = "ConfirmCreateIntent"
    /\ visited' = Append(visited, "ConfirmCreateIntent")
    /\ UNCHANGED <<env, sdkSettings, conv, contractAddr, sender, balWei,
                   shouldSend, shouldCreateUnsigned, shouldSignAndSend,
                   intent, calls, receipts, exitStatus>>

\* lines 54-60: steak.auth(key) (SDK.auth: this.core.setAuth), second prompt
Authenticate ==
    /\ pc = "Authenticate"
    /\ out' = Append(out, "steak banner")
    /\ authKey' = env.STAKING_API_KEY
    /\ sdkCalls' = Append(sdkCalls,
          SdkCall("auth", <<env.STAKING_API_KEY>>))
    /\ prompts' = Append(prompts, "create unsigned")
    /\ pc' = "ConfirmCreateIntent"
    /\ visited' = Append(visited, "ConfirmCreateIntent")
    /\ UNCHANGED <<env, sdkSettings, conv, contractAddr, sender, balWei, shouldSend,
                   shouldCreateUnsigned, shouldSignAndSend, intent, calls,
                   receipts, exitStatus>>

\* mutant: a declined confirmation does not end the process
AnswerCreateIntent_NoExit ==
    /\ pc = "ConfirmCreateIntent"
    /\ \E a \in Answers : shouldCreateUnsigned' = a
    /\ pc' = "CreateIntent"
    /\ visited' = Append(visited, "CreateIntent")
    /\ UNCHANGED <<env, sdkSettings, conv, contractAddr, sender, balWei, shouldSend,
                   shouldSignAndSend, authKey, sdkCalls, intent, calls, receipts,
                   prompts, out, exitStatus>>

\* lines 58-63: confirm() returns, if (!shouldCreateUnsigned) process.exit(0)
AnswerCreateIntent ==
    /\ pc = "ConfirmCreateIntent"
    /\ \E a \in Answers :
        /\ shouldCreateUnsigned' = a
        /\ IF a = "yes"
           THEN /\ pc' = "CreateIntent"
                /\ visited' = Append(visited, "CreateIntent")
                /\ UNCHANGED exitStatus
           ELSE /\ Exit0
                /\ UNCHANGED visited
    /\ UNCHANGED <<env, sdkSettings, conv, contractAddr, sender, balWei, shouldSend,
                   shouldSignAndSend, authKey, sdkCalls, intent, calls, receipts,
                   prompts, out>>

\* mutant: the stake intent method of another chain is called
CreateIntent_WrongEndpoint ==
    /\ pc = "CreateIntent"
    /\ out' = Append(out, "creating")
    /\ sdkCalls' = Append(sdkCalls,
          SdkCall("postSolanaStakeIntent",
                  <<StakeIntentBody, StakeIntentMetadata>>))
    /\ calls' = Append(calls,
          Fetch("createIntent", "/v1/solana/{network}/stake-intents", "post",
                <<StakeIntentBody, StakeIntentMetadata>>))
    /\ pc' = "AwaitCreateIntent"
    /\ UNCHANGED <<env, sdkSettings, conv, contractAddr, sender, balWei,
                   shouldSend, shouldCreateUnsigned, shouldSignAndSend,
                   authKey, intent, receipts, prompts, exitStatus, visited>>

\* lines 64-77: the stake intent request is issued and awaited
CreateIntent ==
    /\ pc = "CreateIntent"
    /\ out' = Append(out, "creating")
    /\ sdkCalls' = Append(sdkCalls,
          SdkCall("postEthereumStakeIntent",
                  <<StakeIntentBody, StakeIntentMetadata>>))
    /\ calls' = Append(calls,
          postEthereumStakeIntent(StakeIntentBody, StakeIntentMetadata))
    /\ pc' = "AwaitCreateIntent"
    /\ UNCHANGED <<env, sdkSettings, conv, contractAddr, sender, balWei, shouldSend,
                   shouldCreateUnsigned, shouldSignAndSend, authKey, intent,
                   receipts, prompts, exitStatus, visited>>

\* mutant: the contract address of the response replaces the selected one
CreateIntentReturns_AdoptsContract ==
    /\ pc = "AwaitCreateIntent"
    /\ \E r \in IntentResponses :
        /\ intent' = <<r>>
        /\ contractAddr' = IF r.hasEthereum THEN r.contract_address
                           ELSE contractAddr
    /\ calls' = Complete("ok", Undefined)
    /\ out' = Append(out, "intent")
    /\ prompts' = Append(prompts, "sign and send")
    /\ pc' = "ConfirmSignAndSend"
    /\ visited' = Append(visited, "ConfirmSignAndSend")
    /\ UNCHANGED <<env, sdkSettings, conv, sender, balWei, shouldSend,
                   shouldCreateUnsigned, shouldSignAndSend, authKey, sdkCalls,
                   receipts, exitStatus>>

\* lines 67-81: the 200 response arrives, data.ethereum is printed, third prompt
CreateIntentReturns ==
    /\ pc = "AwaitCreateIntent"
    /\ \E r \in IntentResponses : intent' = <<r>>
    /\ calls' = Complete("ok", Undefined)
    /\ out' = Append(out, "intent")
    /\ prompts' = Append(prompts, "sign and send")
    /\ pc' = "ConfirmSignAndSend"
    /\ visited' = Append(visited, "ConfirmSignAndSend")
    /\ UNCHANGED <<env, sdkSettings, conv, contractAddr, sender, balWei, shouldSend,
                   shouldCreateUnsigned, shouldSignAndSend, authKey, sdkCalls, receipts,
                   exitStatus>>

\* mutant: a failed request is sent again
CreateIntentFails_Retry ==
    /\ pc = "AwaitCreateIntent"
    /\ \E code \in IntentErrorCodes :
        calls' = Append(Complete("failed", code),
                        postEthereumStakeIntent(StakeIntentBody,
                                                StakeIntentMetadata))
    /\ UNCHANGED <<env, sdkSettings, conv, pc, contractAddr, sender, balWei, shouldSend,
                   shouldCreateUnsigned, shouldSignAndSend, authKey, sdkCalls, intent,
                   receipts, prompts, out, exitStatus, visited>>

\* line 67: await steak.postEthereumStakeIntent rejects (FetchError 400, 401,
\* 500, 503)
CreateIntentFails ==
    /\ pc = "AwaitCreateIntent"
    /\ \E code \in IntentErrorCodes : calls' = Complete("failed", code)
    /\ Abort
    /\ UNCHANGED <<env, sdkSettings, conv, contractAddr, sender, balWei, shouldSend,
                   shouldCreateUnsigned, shouldSignAndSend, authKey, sdkCalls, intent,
                   receipts, prompts, out, visited>>

\* mutant: the condition of the third confirmation is inverted
AnswerSignAndSend_Inverted ==
    /\ pc = "ConfirmSignAndSend"
    /\ \E a \in Answers :
        /\ shouldSignAndSend' = a
        /\ IF a = "no"
           THEN /\ pc' = "SignAndBroadcast"
                /\ visited' = Append(visited, "SignAndBroadcast")
                /\ UNCHANGED exitStatus
           ELSE /\ Exit0
                /\ UNCHANGED visited
    /\ UNCHANGED <<env, sdkSettings, conv, contractAddr, sender, balWei, shouldSend,
                   shouldCreateUnsigned, authKey, sdkCalls, intent, calls, receipts,
                   prompts, out>>

\* mutant: a declined confirmation is asked again
AnswerSignAndSend_AskAgain ==
    /\ pc = "ConfirmSignAndSend"
    /\ \E a \in Answers :
        /\ shouldSignAndSend' = a
        /\ IF a = "yes"
           THEN /\ pc' = "SignAndBroadcast"
                /\ visited' = Append(visited, "SignAndBroadcast")
                /\ UNCHANGED prompts
           ELSE /\ prompts' = Append(prompts, "sign and send")
                /\ UNCHANGED <<pc, visited>>
    /\ UNCHANGED <<env, sdkSettings, conv, contractAddr, sender, balWei,
                   shouldSend, shouldCreateUnsigned, authKey, sdkCalls,
                   intent, calls, receipts, out, exitStatus>>

\* lines 81-84: confirm() returns, if (!shouldSignAndSend) process.exit(0)
AnswerSignAndSend ==
    /\ pc = "ConfirmSignAndSend"
    /\ \E a \in Answers :
        /\ shouldSignAndSend' = a
        /\ IF a = "yes"
           THEN /\ pc' = "SignAndBroadcast"
                /\ visited' = Append(visited, "SignAndBroadcast")
                /\ UNCHANGED exitStatus
           ELSE /\ Exit0
                /\ UNCHANGED visited
    /\ UNCHANGED <<env, sdkSettings, conv, contractAddr, sender, balWei, shouldSend,
                   shouldCreateUnsigned, authKey, sdkCalls, intent, calls, receipts,
                   prompts, out>>

\* mutant: the deposit amount is converted with the wrong unit
SignAndBroadcast_WrongUnit ==
    /\ pc = "SignAndBroadcast"
    /\ out' = Append(out, "processing")
    /\ calls' = Append(calls,
          TransactionCall("deposit", sender, DepositRecipient,
                          toWei(amountInGwei, "ether"), DepositData))
    /\ pc' = "AwaitDeposit"
    /\ UNCHANGED <<env, sdkSettings, conv, contractAddr, sender, balWei,
                   shouldSend, shouldCreateUnsigned, shouldSignAndSend,
                   authKey, sdkCalls, intent, receipts, prompts, exitStatus,
                   visited>>

\* lines 86-93: the deposit transaction is issued and awaited
SignAndBroadcast ==
    /\ pc = "SignAndBroadcast"
    /\ out' = Append(out, "processing")
    /\ calls' = Append(calls,
          TransactionCall("deposit", sender, DepositRecipient,
                          toWei(amountInGwei, "gwei"), DepositData))
    /\ pc' = "AwaitDeposit"
    /\ UNCHANGED <<env, sdkSettings, conv, contractAddr, sender, balWei, shouldSend,
                   shouldCreateUnsigned, shouldSignAndSend, authKey, sdkCalls, intent,
                   receipts, prompts, exitStatus, visited>>

\* mutant: the process stays alive after the last statement
DepositReturns_NoExit ==
    /\ pc = "AwaitDeposit"
    /\ \E r \in ReceiptStatuses : receipts' = Append(receipts, r)
    /\ calls' = Complete("ok", Undefined)
    /\ out' = Append(out, "receipt")
    /\ pc' = "Done"
    /\ visited' = Append(visited, "Done")
    /\ UNCHANGED <<env, sdkSettings, conv, contractAddr, sender, balWei,
                   shouldSend, shouldCreateUnsigned, shouldSignAndSend,
                   authKey, sdkCalls, intent, prompts, exitStatus>>

\* lines 88-94: the receipt arrives and is printed, the script ends
DepositReturns ==
    /\ pc = "AwaitDeposit"
    /\ \E r \in ReceiptStatuses : receipts' = Append(receipts, r)
    /\ calls' = Complete("ok", Undefined)
    /\ out' = Append(out, "receipt")
    /\ pc' = "Done"
    /\ exitStatus' = <<0>>
    /\ visited' = Append(visited, "Done")
    /\ UNCHANGED <<env, sdkSettings, conv, contractAddr, sender, balWei, shouldSend,
                   shouldCreateUnsigned, shouldSignAndSend, authKey, sdkCalls, intent,
                   prompts>>

\* mutant: a failed deposit is broadcast again
DepositFails_Resend ==
    /\ pc = "AwaitDeposit"
    /\ calls' = Append(Complete("failed", "rpc"),
          TransactionCall("deposit", sender, DepositRecipient,
                          toWei(amountInGwei, "gwei"), DepositData))
    /\ UNCHANGED <<env, sdkSettings, conv, pc, contractAddr, sender, balWei,
                   shouldSend, shouldCreateUnsigned, shouldSignAndSend,
                   authKey, sdkCalls, intent, receipts, prompts, out,
                   exitStatus, visited>>

\* line 88: await web3.eth.sendTransaction rejects
DepositFails ==
    /\ pc = "AwaitDeposit"
    /\ calls' = Complete("failed", "rpc")
    /\ Abort
    /\ UNCHANGED <<env, sdkSettings, conv, contractAddr, sender, balWei, shouldSend,
                   shouldCreateUnsigned, shouldSignAndSend, authKey, sdkCalls, intent,
                   receipts, prompts, out, visited>>

----------------------------------------------------------------------------
(* Specifications *)

\* steps the script takes by itself, without waiting for the outside
ScriptStep ==
    \/ ResolveConfig
    \/ QueryBalance
    \/ SendTestTransfer
    \/ Authenticate
    \/ CreateIntent
    \/ SignAndBroadcast

\* steps that end a suspension: a call returns or fails, a prompt is answered
EnvStep ==
    \/ GetBalanceReturns
    \/ GetBalanceFails
    \/ AnswerTestTransfer
    \/ TestTransferReturns
    \/ TestTransferFails
    \/ AnswerCreateIntent
    \/ CreateIntentReturns
    \/ CreateIntentFails
    \/ AnswerSignAndSend
    \/ DepositReturns
    \/ DepositFails

Next ==
    \/ ResolveConfig
    \/ QueryBalance
    \/ GetBalanceReturns
    \/ GetBalanceFails
    \/ AnswerTestTransfer
    \/ SendTestTransfer
    \/ TestTransferReturns
    \/ TestTransferFails
    \/ Authenticate
    \/ AnswerCreateIntent
    \/ CreateIntent
    \/ CreateIntentReturns
    \/ CreateIntentFails
    \/ AnswerSignAndSend
    \/ SignAndBroadcast
    \/ DepositReturns
    \/ DepositFails

Spec == Init /\ [][Next]_vars

\* the runtime runs the script whenever it is not suspended
FairSpec == Init /\ [][Next]_vars /\ WF_vars(ScriptStep)

\* the same, in an environment that ends every suspension: every prompt is
\* answered, every issued call returns or fails
LiveSpec == Init /\ [][Next]_vars /\ WF_vars(ScriptStep) /\ WF_vars(EnvStep)

----------------------------------------------------------------------------
(* The generated SDK on its own: a client invokes any of its methods (config,
   auth, server and the endpoint methods) with any arguments, one after the
   other *)

\* the endpoint methods of class SDK: each is
\* return this.core.fetch(path, verb, ...params)
Endpoints == {
    [method |-> "listCustomerPlans",
     path |-> "/v1/plans",
     verb |-> "get", params |-> <<"metadata">>],
    [method |-> "listStakeIntents",
     path |-> "/v1/stake-intents",
     verb |-> "get", params |-> <<"metadata">>],
    [method |-> "postEthereumStakeIntent",
     path |-> "/v1/ethereum/{network}/stake-intents",
     verb |-> "post", params |-> <<"body", "metadata">>],
    [method |-> "exitEthereumValidator",
     path |-> "/v1/ethereum/{network}/voluntary-exit",
     verb |-> "post", params |-> <<"body", "metadata">>],
    [method |-> "exitEthereumValidators",
     path |-> "/v1/ethereum/{network}/voluntary-exits",
     verb |-> "post", params |-> <<"body", "metadata">>],
    [method |-> "generateSignedVoluntaryExit",
     path |-> "/v1/ethereum/{network}/signed-voluntary-exit",
     verb |-> "get", params |-> <<"metadata">>],
    [method |-> "generateEthereumLaunchpadDeposit",
     path |-> "/v1/eth2-launchpad-deposit",
     verb |-> "post", params |-> <<"body">>],
    [method |-> "pendingQueuedProgress",
     path |-> "/v1/ethereum/{network}/queue-progress/pending-queued",
     verb |-> "post", params |-> <<"body", "metadata">>],
    [method |-> "activeExitingQueueProgress",
     path |-> "/v1/ethereum/{network}/queue-progress/active-exiting",
     verb |-> "post", params |-> <<"body", "metadata">>],
    [method |-> "postSolanaStakeIntent",
     path |-> "/v1/solana/{network}/stake-intents",
     verb |-> "post", params |-> <<"body", "metadata">>],
    [method |-> "postSolanaDeactivationIntent",
     path |-> "/v1/solana/{network}/deactivation-intents",
     verb |-> "post", params |-> <<"body", "metadata">>],
    [method |-> "getSolanaDeactivationIntents",
     path |-> "/v1/solana/{network}/deactivation-intents",
     verb |-> "get", params |-> <<"metadata">>],
    [method |-> "cancelSolanaDeactivationIntent",
     path |-> "/v1/solana/{network}/deactivation-intents",
     verb |-> "put", params |-> <<"body", "metadata">>],
    [method |-> "getSolanaDeactivatableAmount",
     path |-> "/v1/solana/{network}/deactivatable-amount",
     verb |-> "get", params |-> <<"metadata">>],
    [method |-> "postSolanaWithdrawalIntent",
     path |-> "/v1/solana/{network}/withdrawal-intents",
     verb |-> "post", params |-> <<"body", "metadata">>],
    [method |-> "getSolanaWithdrawalIntents",
     path |-> "/v1/solana/{network}/withdrawal-intents",
     verb |-> "get", params |-> <<"metadata">>],
    [method |-> "cancelSolanaWithdrawalIntent",
     path |-> "/v1/solana/{network}/withdrawal-intents",
     verb |-> "put", params |-> <<"body", "metadata">>],
    [method |-> "getSolanaWithdrawableAmount",
     path |-> "/v1/solana/{network}/withdrawable-amount",
     verb |-> "get", params |-> <<"metadata">>],
    [method |-> "getStakeAccountsSolana",
     path |-> "/v1/solana/{network}/stake-accounts",
     verb |-> "get", params |-> <<"metadata">>],
    [method |-> "postPolygonBootstrappingIntent",
     path |-> "/v1/polygon/{network}/bootstrapping-intents",
     verb |-> "post", params |-> <<"body", "metadata">>],
    [method |-> "postPolygonStakeIntent",
     path |-> "/v1/polygon/{network}/stake-intents",
     verb |-> "post", params |-> <<"body", "metadata">>],
    [method |-> "postPolygonDeactivationIntent",
     path |-> "/v1/polygon/{network}/deactivation-intents",
     verb |-> "post", params |-> <<"body", "metadata">>],
    [method |-> "getPolygonDeactivationIntents",
     path |-> "/v1/polygon/{network}/deactivation-intents",
     verb |-> "get", params |-> <<"metadata">>],
    [method |-> "cancelPolygonDeactivationIntent",
     path |-> "/v1/polygon/{network}/deactivation-intents",
     verb |-> "put", params |-> <<"body", "metadata">>],
    [method |-> "postPolygonWithdrawalIntent",
     path |-> "/v1/polygon/{network}/withdrawal-intents",
     verb |-> "post", params |-> <<"body", "metadata">>],
    [method |-> "postPolygonRewardsRestakeIntent",
     path |-> "/v1/polygon/{network}/rewards/restake-intents",
     verb |-> "post", params |-> <<"body", "metadata">>],
    [method |-> "postPolygonRewardsWithdrawalIntent",
     path |-> "/v1/polygon/{network}/rewards/withdrawal-intents",
     verb |-> "post", params |-> <<"body", "metadata">>],
    [method |-> "postPolkadotStakeIntent",
     path |-> "/v1/polkadot/{network}/stake-intents",
     verb |-> "post", params |-> <<"body", "metadata">>],
    [method |-> "postPolkadotDeactivateIntent",
     path |-> "/v1/polkadot/{network}/deactivation-intents",
     verb |-> "post", params |-> <<"body", "metadata">>],
    [method |-> "postPolkadotWithdrawalIntent",
     path |-> "/v1/polkadot/{network}/withdrawal-intents",
     verb |-> "post", params |-> <<"body", "metadata">>],
    [method |-> "postCosmosStakeIntent",
     path |-> "/v1/cosmos/{network}/stake-intents",
     verb |-> "post", params |-> <<"body", "metadata">>],
    [method |-> "postCosmosDeactivationIntent",
     path |-> "/v1/cosmos/{network}/deactivation-intents",
     verb |-> "post", params |-> <<"body", "metadata">>],
    [method |-> "getCosmosDeactivationIntents",
     path |-> "/v1/cosmos/{network}/deactivation-intents",
     verb |-> "get", params |-> <<"metadata">>],
    [method |-> "postCosmosRewardsWithdrawalIntent",
     path |-> "/v1/cosmos/{network}/rewards/withdrawal-intents",
     verb |-> "post", params |-> <<"body", "metadata">>],
    [method |-> "getCosmosDeactivatableAmount",
     path |-> "/v1/cosmos/{network}/deactivatable-amount",
     verb |-> "get", params |-> <<"metadata">>],
    [method |-> "getCosmosWithdrawableRewardsAmount",
     path |-> "/v1/cosmos/{network}/rewards/withdrawable-amount",
     verb |-> "get", params |-> <<"metadata">>],
    [method |-> "postCosmosRestakeIntent",
     path |-> "/v1/cosmos/{network}/restake-intents",
     verb |-> "post", params |-> <<"body", "metadata">>],
    [method |-> "getCosmosRestakeIntents",
     path |-> "/v1/cosmos/{network}/restake-intents",
     verb |-> "get", params |-> <<"metadata">>],
    [method |-> "postBinanceStakeIntent",
     path |-> "/v1/binance/{network}/stake-intents",
     verb |-> "post", params |-> <<"body", "metadata">>],
    [method |-> "postBinanceDeactivationIntent",
     path |-> "/v1/binance/{network}/deactivation-intents",
     verb |-> "post", params |-> <<"body", "metadata">>],
    [method |-> "getBinanceDeactivationIntents",
     path |-> "/v1/binance/{network}/deactivation-intents",
     verb |-> "get", params |-> <<"metadata">>],
    [method |-> "getBinanceDeactivatableAmount",
     path |-> "/v1/binance/{network}/deactivatable-amount",
     verb |-> "get", params |-> <<"metadata">>],
    [method |-> "postBinanceRestakeIntent",
     path |-> "/v1/binance/{network}/restake-intents",
     verb |-> "post", params |-> <<"body", "metadata">>],
    [method |-> "getBinanceRestakeIntents",
     path |-> "/v1/binance/{network}/restake-intents",
     verb |-> "get", params |-> <<"metadata">>],
    [method |-> "postNearStakeIntent",
     path |-> "/v1/near/{network}/stake-intents",
     verb |-> "post", params |-> <<"body", "metadata">>],
    [method |-> "postNearDeactivationIntent",
     path |-> "/v1/near/{network}/deactivation-intents",
     verb |-> "post", params |-> <<"body", "metadata">>],
    [method |-> "getNearDeactivationIntents",
     path |-> "/v1/near/{network}/deactivation-intents",
     verb |-> "get", params |-> <<"metadata">>],
    [method |-> "cancelNearDeactivationIntent",
     path |-> "/v1/near/{network}/deactivation-intents",
     verb |-> "put", params |-> <<"body", "metadata">>],
    [method |-> "getNearDeactivatableAmount",
     path |-> "/v1/near/{network}/deactivatable-amount",
     verb |-> "get", params |-> <<"metadata">>],
    [method |-> "postNearWithdrawalIntent",
     path |-> "/v1/near/{network}/withdrawal-intents",
     verb |-> "post", params |-> <<"body", "metadata">>],
    [method |-> "getNearWithdrawalIntents",
     path |-> "/v1/near/{network}/withdrawal-intents",
     verb |-> "get", params |-> <<"metadata">>],
    [method |-> "getNearWithdrawableAmount",
     path |-> "/v1/near/{network}/withdrawable-amount",
     verb |-> "get", params |-> <<"metadata">>],
    [method |-> "postCardanoStakeIntent",
     path |-> "/v1/cardano/{network}/stake-intents",
     verb |-> "post", params |-> <<"body", "metadata">>],
    [method |-> "postCardanoDeactivationIntent",
     path |-> "/v1/cardano/{network}/deactivation-intents",
     verb |-> "post", params |-> <<"body", "metadata">>],
    [method |-> "getCardanoDeactivationIntents",
     path |-> "/v1/cardano/{network}/deactivation-intents",
     verb |-> "get", params |-> <<"metadata">>],
    [method |-> "postCardanoRewardsWithdrawalIntent",
     path |-> "/v1/cardano/{network}/rewards/withdrawal-intents",
     verb |-> "post", params |-> <<"body", "metadata">>],
    [method |-> "getCardanoRewardsWithdrawalIntents",
     path |-> "/v1/cardano/{network}/rewards/withdrawal-intents",
     verb |-> "get", params |-> <<"metadata">>],
    [method |-> "submitTransaction",
     path |-> "/v1/cardano/{network}/transaction-submission",
     verb |-> "post", params |-> <<"body", "metadata">>],
    [method |-> "postAvaxStakeIntent",
     path |-> "/v1/avalanche/{network}/stake-intents",
     verb |-> "post", params |-> <<"body", "metadata">>]}

EndpointOf(method) == CHOOSE e \in Endpoints : e.method = method

SettingMethods == {"config", "auth", "server"}

SdkConfigs == {"timeout 1000"}
SdkServers == {"https://svc.blockdaemon.com/boss"}
SdkBodies == {[stakes |-> <<>>]}
SdkMetadatas == {[network |-> "mainnet"], [network |-> "holesky"]}
SdkErrorCodes == {"500"}

\* the arguments a method is invoked with, in the order of its parameters
ArgsFor(e, body, metadata) ==
    [i \in 1..Len(e.params) |->
        IF e.params[i] = "body" THEN body ELSE metadata]

\* the request an endpoint method makes of the core
EndpointFetch(e, body, metadata) ==
    IF e.method = "postEthereumStakeIntent"
    THEN postEthereumStakeIntent(body, metadata)
    ELSE Fetch("sdkFetch", e.path, e.verb, ArgsFor(e, body, metadata))

SdkInit ==
    /\ Init
    /\ IsProperEnv(env)
    /\ env.NETWORK = "holesky"

\* SDK.config(config): this.core.setConfig(config)
SdkConfig ==
    /\ Len(sdkCalls) < MaxSdkCalls
    /\ InFlight = {}
    /\ \E c \in SdkConfigs :
        /\ sdkSettings' = [sdkSettings EXCEPT !.config = <<c>>]
        /\ sdkCalls' = Append(sdkCalls, SdkCall("config", <<c>>))
    /\ UNCHANGED <<env, conv, pc, contractAddr, sender, balWei, shouldSend,
                   shouldCreateUnsigned, shouldSignAndSend, authKey, intent,
                   calls, receipts, prompts, out, exitStatus, visited>>

\* SDK.auth(...values): this.core.setAuth(...values)
SdkAuth ==
    /\ Len(sdkCalls) < MaxSdkCalls
    /\ InFlight = {}
    /\ \E k \in StakingApiKeys :
        /\ authKey' = k
        /\ sdkCalls' = Append(sdkCalls, SdkCall("auth", <<k>>))
    /\ UNCHANGED <<env, conv, pc, contractAddr, sender, balWei, shouldSend,
                   shouldCreateUnsigned, shouldSignAndSend, sdkSettings,
                   intent, calls, receipts, prompts, out, exitStatus,
                   visited>>

\* SDK.server(url, variables): this.core.setServer(url, variables)
SdkServer ==
    /\ Len(sdkCalls) < MaxSdkCalls
    /\ InFlight = {}
    /\ \E u \in SdkServers :
        /\ sdkSettings' = [sdkSettings EXCEPT !.server = <<u>>]
        /\ sdkCalls' = Append(sdkCalls, SdkCall("server", <<u>>))
    /\ UNCHANGED <<env, conv, pc, contractAddr, sender, balWei, shouldSend,
                   shouldCreateUnsigned, shouldSignAndSend, authKey, intent,
                   calls, receipts, prompts, out, exitStatus, visited>>

\* an endpoint method is invoked: return this.core.fetch(...)
SdkEndpoint ==
    /\ Len(sdkCalls) < MaxSdkCalls
    /\ Len(calls) < MaxFetches
    /\ InFlight = {}
    /\ \E e \in Endpoints, b \in SdkBodies, md \in SdkMetadatas :
        /\ sdkCalls' = Append(sdkCalls, SdkCall(e.method, ArgsFor(e, b, md)))
        /\ calls' = Append(calls, EndpointFetch(e, b, md))
    /\ UNCHANGED <<env, conv, pc, contractAddr, sender, balWei, shouldSend,
                   shouldCreateUnsigned, shouldSignAndSend, authKey,
                   sdkSettings, intent, receipts, prompts, out, exitStatus,
                   visited>>

\* the promise core.fetch returned resolves with a 2xx response
SdkFetchReturns ==
    /\ InFlight # {}
    /\ calls' = Complete("ok", Undefined)
    /\ UNCHANGED <<env, conv, pc, contractAddr, sender, balWei, shouldSend,
                   shouldCreateUnsigned, shouldSignAndSend, authKey, sdkCalls,
                   sdkSettings, intent, receipts, prompts, out, exitStatus,
                   visited>>

\* the promise core.fetch returned rejects with a FetchError; the method
\* hands the rejection to its caller
SdkFetchFails ==
    /\ InFlight # {}
    /\ \E code \in SdkErrorCodes : calls' = Complete("failed", code)
    /\ UNCHANGED <<env, conv, pc, contractAddr, sender, balWei, shouldSend,
                   shouldCreateUnsigned, shouldSignAndSend, authKey, sdkCalls,
                   sdkSettings, intent, receipts, prompts, out, exitStatus,
                   visited>>

SdkNext ==
    \/ SdkConfig
    \/ SdkAuth
    \/ SdkServer
    \/ SdkEndpoint
    \/ SdkFetchReturns
    \/ SdkFetchFails

SdkSpec == SdkInit /\ [][SdkNext]_vars

----------------------------------------------------------------------------
(* The unit conversions on their own: an amount of wei is turned into the
   display unit (as run.ts line 36 does with the balance) and back into wei
   (as lines 49 and 91 do with the amounts they send) *)

SampleDigits == {1, 5, 32, 907, 123456}
ConversionUnits == {"ether", "gwei", "wei"}
WeiSamples == {NatToString(d) \o Zeros(k) : d \in SampleDigits, k \in 0..MaxZeros}

ConvInit ==
    /\ Init
    /\ IsProperEnv(env)
    /\ env.NETWORK = "holesky"

ConvStart ==
    /\ conv = <<>>
    /\ \E w \in WeiSamples, u \in ConversionUnits :
           conv' = <<[stage |-> "wei", wei |-> w, unit |-> u,
                      display |-> <<>>, back |-> <<>>]>>
    /\ UNCHANGED <<env, pc, contractAddr, sender, balWei, shouldSend,
                   shouldCreateUnsigned, shouldSignAndSend, authKey, intent,
                   calls, receipts, prompts, out, exitStatus, visited,
                   sdkCalls, sdkSettings>>

ConvFromWei ==
    /\ conv # <<>>
    /\ conv[1].stage = "wei"
    /\ conv' = <<[conv[1] EXCEPT !.stage = "display",
                                 !.display = fromWei(conv[1].wei, conv[1].unit)]>>
    /\ UNCHANGED <<env, pc, contractAddr, sender, balWei, shouldSend,
                   shouldCreateUnsigned, shouldSignAndSend, authKey, intent,
                   calls, receipts, prompts, out, exitStatus, visited,
                   sdkCalls, sdkSettings>>

ConvToWei ==
    /\ conv # <<>>
    /\ conv[1].stage = "display"
    /\ conv' = <<[conv[1] EXCEPT !.stage = "back",
                                 !.back = toWeiString(conv[1].display,
                                                      conv[1].unit)]>>
    /\ UNCHANGED <<env, pc, contractAddr, sender, balWei, shouldSend,
                   shouldCreateUnsigned, shouldSignAndSend, authKey, intent,
                   calls, receipts, prompts, out, exitStatus, visited,
                   sdkCalls, sdkSettings>>

ConvNext ==
    \/ ConvStart
    \/ ConvFromWei
    \/ ConvToWei

ConvSpec == ConvInit /\ [][ConvNext]_vars

----------------------------------------------------------------------------
(* Properties *)

Range(s) == {s[i] : i \in 1..Len(s)}

IsPrefix(s, t) == Len(s) <= Len(t) /\ SubSeq(t, 1, Len(s)) = s

PromptShown == pc \in {"ConfirmTestTransfer", "ConfirmCreateIntent",
                       "ConfirmSignAndSend"}

\* C1: with a network identifier other than "mainnet" and "holesky" (an
\* absent one included) the run ends with exit status 0, and no network call,
\* wallet derivation or confirmation prompt has happened.
C1_UnknownNetworkExitsBeforeAnyCall ==
    env.NETWORK \notin {"mainnet", "holesky"} =>
        /\ calls = <<>>
        /\ sender = Undefined
        /\ prompts = <<>>
        /\ pc \in {"ResolveConfig", "Exited"}
        /\ pc = "Exited" => exitStatus = <<0>>
        /\ pc = "ResolveConfig" => exitStatus = <<>>

C1_Witness ==
    /\ env.NETWORK = Undefined
    /\ pc = "Exited"
    /\ exitStatus = <<0>>

\* C2: on a known network the selected contract address depends on the
\* identifier alone, equals the table entry, and is never empty once
\* configuration resolution is over.
C2_ContractAddressMatchesTable ==
    (env.NETWORK \in {"mainnet", "holesky"} /\ pc # "ResolveConfig") =>
        /\ env.NETWORK = "mainnet" =>
               contractAddr = "0x3f124c700fb5e741f128e28985267d44f56b242f"
        /\ env.NETWORK = "holesky" =>
               contractAddr = "0x0b6e07c5ead5596c1f26ca2f6b97050cec853671"
        /\ contractAddr # ""

C2_Witness ==
    /\ env.NETWORK = "holesky"
    /\ pc = "AwaitDeposit"
    /\ contractAddr = "0x0b6e07c5ead5596c1f26ca2f6b97050cec853671"

\* C3: the create-intent request is issued only after the balance query has
\* completed successfully.
C3_IntentOnlyAfterBalance ==
    \A i \in CallsOfKind("createIntent") :
        /\ balWei # <<>>
        /\ \E j \in 1..(i - 1) :
               calls[j].kind = "getBalance" /\ calls[j].status = "ok"

C3_Witness ==
    /\ pc = "AwaitCreateIntent"
    /\ CallsOfKind("createIntent") # {}

\* C4: once the first confirmation is declined no test transfer is ever
\* broadcast, and the flow goes on to the staking step: the credential is
\* attached and the create-intent confirmation is presented.
C4_DeclinedTransferStillStakes ==
    /\ [](shouldSend = "no" => CallsOfKind("testTransfer") = {})
    /\ (shouldSend = "no") ~>
           (/\ authKey = env.STAKING_API_KEY
            /\ "create unsigned" \in Range(prompts))

C4_Witness ==
    /\ shouldSend = "no"
    /\ pc = "ConfirmCreateIntent"
    /\ CallsOfKind("testTransfer") = {}

\* C5: a declined create-intent confirmation means no staking request and no
\* deposit, a declined sign-and-send confirmation means no deposit, both end
\* the process with status 0; with answers [no, no] the balance query is the
\* only network call.
C5_DeclineEndsCleanly ==
    /\ shouldCreateUnsigned = "no" =>
           /\ CallsOfKind("createIntent") = {}
           /\ CallsOfKind("deposit") = {}
           /\ pc = "Exited" /\ exitStatus = <<0>>
    /\ shouldSignAndSend = "no" =>
           /\ CallsOfKind("deposit") = {}
           /\ pc = "Exited" /\ exitStatus = <<0>>
    /\ (shouldSend = "no" /\ shouldCreateUnsigned = "no") =>
           /\ Len(calls) = 1
           /\ calls[1].kind = "getBalance"

C5_Witness ==
    /\ env.NETWORK = "holesky"
    /\ shouldSend = "no"
    /\ shouldCreateUnsigned = "no"
    /\ exitStatus = <<0>>

LinearOrder ==
    <<"ResolveConfig", "QueryBalance", "ConfirmTestTransfer",
      "SendTestTransfer", "Authenticate", "ConfirmCreateIntent",
      "CreateIntent", "ConfirmSignAndSend", "SignAndBroadcast", "Done">>

IsNotSendTestTransfer(s) == s # "SendTestTransfer"

LinearOrderSkipping == SelectSeq(LinearOrder, IsNotSendTestTransfer)

\* the flow state that issues a call of the given kind
StateOfCall(kind) ==
    CASE kind = "getBalance" -> "QueryBalance"
      [] kind = "testTransfer" -> "SendTestTransfer"
      [] kind = "createIntent" -> "CreateIntent"
      [] kind = "deposit" -> "SignAndBroadcast"
      [] OTHER -> "none"

\* C6: the states visited are a prefix of the linear order, with
\* SendTestTransfer left out only after a "no"; a pending call belongs to the
\* state the flow is in, so no state is entered before its predecessor is over.
C6_VisitedIsPrefixOfLinearOrder ==
    /\ IF shouldSend = "no"
       THEN IsPrefix(visited, LinearOrderSkipping)
       ELSE IsPrefix(visited, LinearOrder)
    /\ \A i \in InFlight :
           /\ i = Len(calls)
           /\ StateOfCall(calls[i].kind) = visited[Len(visited)]

C6_Witness ==
    /\ pc = "Done"
    /\ visited = LinearOrder

\* C7: a test transfer is broadcast only after a yes to the first
\* confirmation, a stake intent is created only after a yes to the second,
\* the deposit is broadcast only after a yes to the second and the third.
C7_EffectsGatedByConfirmation ==
    /\ CallsOfKind("testTransfer") # {} => shouldSend = "yes"
    /\ CallsOfKind("createIntent") # {} => shouldCreateUnsigned = "yes"
    /\ CallsOfKind("deposit") # {} =>
           shouldCreateUnsigned = "yes" /\ shouldSignAndSend = "yes"

C7_Witness ==
    /\ CallsOfKind("testTransfer") # {}
    /\ CallsOfKind("createIntent") # {}
    /\ CallsOfKind("deposit") # {}

\* C8: each of the four network calls is issued at most once; a failed call
\* is the last one, the run is aborted, and nothing happens afterwards.
C8_NoRetryAfterFailure ==
    /\ \A k \in {"getBalance", "testTransfer", "createIntent", "deposit"} :
           Cardinality(CallsOfKind(k)) <= 1
    /\ \A i \in 1..Len(calls) :
           calls[i].status = "failed" =>
               /\ i = Len(calls)
               /\ pc = "Aborted"
               /\ exitStatus = <<1>>
               /\ ~ENABLED Next

C8_Witness ==
    /\ Len(calls) = 3
    /\ calls[3].kind = "createIntent"
    /\ calls[3].status = "failed"
    /\ calls[3].error = "503"
    /\ pc = "Aborted"

\* C9: at most one network call is in flight, a call is issued only after
\* the previous one has completed, and no prompt is shown while a call is in
\* flight.
C9_AtMostOneCallInFlight ==
    /\ Cardinality(InFlight) <= 1
    /\ \A i \in InFlight : i = Len(calls)
    /\ PromptShown => InFlight = {}

C9_Witness ==
    /\ Len(calls) = 4
    /\ InFlight = {4}

\* C10: the recipient of the broadcast deposit transaction is the
\* contract_address property of the stake-intent response of the same run.
C10_DepositRecipientIsResponseContract ==
    \A i \in CallsOfKind("deposit") :
        (intent # <<>> /\ intent[1].hasEthereum) =>
            calls[i].to = intent[1].contract_address


\* C11: a broadcast deposit carries as data exactly the unsigned_transaction
\* of the intent response of the run, never an absent or a different payload,
\* also when the response has no ethereum object.
C11_DepositDataIsUnsignedTransaction ==
    \A i \in CallsOfKind("deposit") :
        /\ intent # <<>>
        /\ intent[1].hasEthereum
        /\ calls[i].data # Undefined
        /\ calls[i].data = intent[1].unsigned_transaction

\* C12: the request carries 32 * 10^9 gwei, the deposit's value is that
\* amount times 10^9, exactly 32 * 10^18 wei, whatever the response holds,
\* and the amount is a number JavaScript represents exactly.
C12_DepositValueIsRequestedAmount ==
    /\ IsExactInteger(amountInGwei)
    /\ \A j \in CallsOfKind("createIntent") :
           calls[j].args[1].stakes[1].amount = <<"3", "2">> \o Zeros(9)
    /\ \A i \in CallsOfKind("deposit") :
           /\ calls[i].value = <<"3", "2">> \o Zeros(18)
           /\ \E j \in CallsOfKind("createIntent") :
                  /\ j < i
                  /\ calls[i].value =
                         calls[j].args[1].stakes[1].amount \o Zeros(9)

C12_Witness ==
    /\ CallsOfKind("deposit") # {}
    /\ intent # <<>>
    /\ ~intent[1].hasEthereum
    /\ Len(calls[Len(calls)].value) = 20


\* C13: an integer amount of wei turned into the display unit and back into
\* wei is the original amount, digit for digit; the amounts tried include 1,
\* 10^9, 10^18 and 32 * 10^9.
C13_ConversionRoundTrips ==
    /\ {<<"1">>, <<"1">> \o Zeros(9), <<"1">> \o Zeros(18),
        <<"3", "2">> \o Zeros(9)} \subseteq WeiSamples
    /\ (conv # <<>> /\ conv[1].stage = "back") => conv[1].back = conv[1].wei

C13_Witness ==
    /\ conv # <<>>
    /\ conv[1].stage = "back"
    /\ conv[1].unit = "ether"
    /\ conv[1].wei = <<"3", "2">> \o Zeros(9)
    /\ conv[1].display = <<"0", ".">> \o Zeros(7) \o <<"3", "2">>
    /\ conv[1].back = <<"3", "2">> \o Zeros(9)


\* C14: an unsupported network and a declined create-intent or sign-and-send
\* confirmation end the process with status 0, a failed network call ends it
\* with a non-zero status, and no failed call goes with status 0.
C14_ExitStatusFollowsTaxonomy ==
    /\ (env.NETWORK \notin {"mainnet", "holesky"} /\ pc # "ResolveConfig") =>
           exitStatus = <<0>>
    /\ shouldCreateUnsigned = "no" => exitStatus = <<0>>
    /\ shouldSignAndSend = "no" => exitStatus = <<0>>
    /\ \A i \in 1..Len(calls) :
           calls[i].status = "failed" =>
               /\ exitStatus # <<>>
               /\ exitStatus[1] # 0

C14_Witness ==
    /\ Len(calls) = 4
    /\ calls[4].kind = "deposit"
    /\ calls[4].status = "failed"
    /\ exitStatus = <<1>>

\* C15 as stated: no run asks the user more than two yes/no confirmations.
C15_AtMostTwoPrompts == Len(prompts) <= 2

ThreePrompts == <<"send test transfer", "create unsigned", "sign and send">>

\* C15 amended: the console interface presents three yes/no confirmation
\* prompts, each at most once and in this order; no run asks more than three.
C15_AtMostThreePrompts ==
    /\ Len(prompts) <= 3
    /\ IsPrefix(prompts, ThreePrompts)

C15_Witness ==
    /\ prompts = ThreePrompts
    /\ pc = "ConfirmSignAndSend"

Blocked == PromptShown \/ InFlight # {}

\* C16: when every prompt is answered and every issued call returns or fails,
\* the run terminates; while a prompt is unanswered or a call is pending the
\* flow takes no step of its own, so it issues no further call.
C16_TerminatesUnlessBlocked ==
    /\ <>(exitStatus # <<>>)
    /\ [](Blocked => ~ENABLED ScriptStep)
    /\ [][Blocked => Len(calls') = Len(calls)]_vars

C16_Witness ==
    /\ pc = "Exited"
    /\ shouldSignAndSend = "no"
    /\ Len(calls) = 3


SdkCallsOf(method) ==
    {i \in 1..Len(sdkCalls) : sdkCalls[i].method = method}

\* C17: the create-intent request has exactly one stake entry, with the
\* amount "32000000000" (no exponent notation) and the sender's address as
\* withdrawal address, the address the deposit is sent from; its network path
\* parameter is the configured network.
C17_IntentRequestContents ==
    \A j \in CallsOfKind("createIntent") :
        /\ Len(calls[j].args) = 2
        /\ Len(calls[j].args[1].stakes) = 1
        /\ calls[j].args[1].stakes[1].amount =
               <<"3", "2", "0", "0", "0", "0", "0", "0", "0", "0", "0">>
        /\ sender # Undefined
        /\ calls[j].args[1].stakes[1].withdrawal_address = sender
        /\ calls[j].args[2] = [network |-> env.NETWORK]
        /\ \A i \in CallsOfKind("deposit") :
               calls[i].from = calls[j].args[1].stakes[1].withdrawal_address

C17_Witness ==
    /\ CallsOfKind("createIntent") # {}
    /\ CallsOfKind("deposit") # {}
    /\ env.NETWORK = "mainnet"

\* C18: when the staking request is issued, auth has been called exactly
\* once, with the staking API key and before the request, and the request
\* carries that credential; auth is also called in runs that decline the
\* create-intent confirmation; auth issues no network call.
C18_AuthBeforeIntentRequest ==
    /\ [](\A j \in CallsOfKind("createIntent") :
              /\ calls[j].auth = env.STAKING_API_KEY
              /\ authKey = env.STAKING_API_KEY
              /\ Cardinality(SdkCallsOf("auth")) = 1
              /\ \A a \in SdkCallsOf("auth") :
                     /\ sdkCalls[a].args = <<env.STAKING_API_KEY>>
                     /\ \A p \in SdkCallsOf("postEthereumStakeIntent") : a < p)
    /\ [](shouldCreateUnsigned = "no" =>
              /\ authKey = env.STAKING_API_KEY
              /\ Cardinality(SdkCallsOf("auth")) = 1)
    /\ [][Cardinality(SdkCallsOf("auth"))' # Cardinality(SdkCallsOf("auth"))
              => calls' = calls]_vars

C18_Witness ==
    /\ pc = "AwaitCreateIntent"
    /\ calls[Len(calls)].auth = "staking-key"
    /\ SdkCallsOf("auth") = {1}


IsEndpointCall(c) == c.method \notin SettingMethods

EndpointCalls == SelectSeq(sdkCalls, IsEndpointCall)

\* C19: an invocation of an endpoint method makes exactly one core fetch,
\* with the method's own path and verb and the caller's arguments unchanged
\* (postEthereumStakeIntent: '/v1/ethereum/{network}/stake-intents', 'post',
\* body, metadata), makes no second fetch when that one fails, and leaves the
\* SDK's auth, config and server settings as they were.
C19_EndpointIsPassThrough ==
    /\ [](/\ Len(calls) = Len(EndpointCalls)
          /\ \A k \in 1..Len(calls) :
                 /\ calls[k].path = EndpointOf(EndpointCalls[k].method).path
                 /\ calls[k].verb = EndpointOf(EndpointCalls[k].method).verb
                 /\ calls[k].args = EndpointCalls[k].args
                 /\ EndpointCalls[k].method = "postEthereumStakeIntent" =>
                        /\ calls[k].path = "/v1/ethereum/{network}/stake-intents"
                        /\ calls[k].verb = "post"
                        /\ Len(calls[k].args) = 2)
    /\ [][Len(calls') > Len(calls) => UNCHANGED <<authKey, sdkSettings>>]_vars
    /\ [][(InFlight # {} /\ InFlight' = {}) => Len(calls') = Len(calls)]_vars

C19_Witness ==
    /\ Len(sdkCalls) = 2
    /\ sdkCalls[1].method = "auth"
    /\ sdkCalls[2].method = "postEthereumStakeIntent"
    /\ Len(calls) = 1
    /\ calls[1].status = "failed"
    /\ calls[1].auth = "staking-key"


\* the requests made of the staking API
StakingRequests == {i \in 1..Len(calls) : calls[i].path # Undefined}

\* C20: a run issues at most one staking-API request, and it is
\* POST /v1/ethereum/{network}/stake-intents; no other endpoint method of the
\* SDK is ever called.
C20_OnlyStakeIntentEndpoint ==
    /\ Cardinality(StakingRequests) <= 1
    /\ \A i \in StakingRequests :
           /\ calls[i].verb = "post"
           /\ calls[i].path = "/v1/ethereum/{network}/stake-intents"
    /\ \A i \in 1..Len(calls) :
           calls[i].kind \in {"getBalance", "testTransfer", "deposit"} =>
               i \notin StakingRequests
    /\ \A i \in 1..Len(sdkCalls) :
           sdkCalls[i].method \in {"auth", "postEthereumStakeIntent"}
    /\ Cardinality(SdkCallsOf("postEthereumStakeIntent")) <= 1

C20_Witness ==
    /\ pc = "ConfirmSignAndSend"
    /\ Cardinality(StakingRequests) = 1
    /\ Len(calls) = 3


\* a receipt has just been returned by sendTransaction
ReceiptArrives == Len(receipts') = Len(receipts) + 1

\* the step the flow takes next from each of its positions is possible
FlowGoesOn ==
    /\ pc = "Authenticate" => ENABLED Authenticate
    /\ pc = "ConfirmCreateIntent" => ENABLED AnswerCreateIntent
    /\ pc = "CreateIntent" => ENABLED CreateIntent
    /\ pc = "AwaitCreateIntent" => ENABLED CreateIntentReturns
    /\ pc = "ConfirmSignAndSend" => ENABLED AnswerSignAndSend
    /\ pc = "SignAndBroadcast" => ENABLED SignAndBroadcast
    /\ pc = "AwaitDeposit" => ENABLED DepositReturns

\* C21: a receipt is only logged: when the test transfer returns one the
\* flow goes to Authenticate, when the deposit returns one the run is Done,
\* and nothing but the log of receipts and the console depends on what the
\* receipt reports (success or reverted); any receipt is accepted, and the
\* later steps stay possible after a reverted one.
C21_ReceiptLoggedNeverInspected ==
    /\ [][ReceiptArrives =>
            /\ out' = Append(out, "receipt")
            /\ calls' = Complete("ok", Undefined)
            /\ IF pc = "AwaitTestTransfer"
               THEN /\ pc' = "Authenticate"
                    /\ exitStatus' = <<>>
               ELSE /\ pc = "AwaitDeposit"
                    /\ pc' = "Done"
                    /\ exitStatus' = <<0>>
            /\ UNCHANGED <<env, contractAddr, sender, balWei, shouldSend,
                           shouldCreateUnsigned, shouldSignAndSend, authKey,
                           intent, prompts, sdkCalls>>]_vars
    /\ [](pc = "AwaitTestTransfer" =>
            \A r \in {"success", "reverted"} :
                ENABLED (TestTransferReturns /\ receipts' = Append(receipts, r)))
    /\ [](pc = "AwaitDeposit" =>
            \A r \in {"success", "reverted"} :
                ENABLED (DepositReturns /\ receipts' = Append(receipts, r)))
    /\ []("reverted" \in Range(receipts) => FlowGoesOn)

C21_Witness ==
    /\ pc = "Done"
    /\ receipts = <<"reverted", "reverted">>
    /\ exitStatus = <<0>>

\* C22 as stated: a test transfer goes from the sender to the configured
\* receiver with value 10^12 wei and no data, is never addressed to the
\* staking contract and never carries the deposit amount.
C22_TestTransferNeverToContract ==
    \A i \in CallsOfKind("testTransfer") :
        /\ calls[i].from = sender
        /\ calls[i].to = env.RECEIVER_ADDRESS
        /\ calls[i].value = <<"1">> \o Zeros(12)
        /\ calls[i].data = Undefined
        /\ calls[i].to # contractAddr
        /\ calls[i].value # <<"3", "2">> \o Zeros(18)

\* C22 amended: a test transfer goes from the sender to whatever
\* RECEIVER_ADDRESS holds, with value 10^12 wei and no data; it never carries
\* the deposit amount, and it is addressed to the staking contract only when
\* the receiver is configured to be that contract.
C22_TestTransferToConfiguredReceiver ==
    \A i \in CallsOfKind("testTransfer") :
        /\ sender # Undefined
        /\ calls[i].from = sender
        /\ calls[i].to = env.RECEIVER_ADDRESS
        /\ calls[i].value = <<"1">> \o Zeros(12)
        /\ calls[i].data = Undefined
        /\ calls[i].value # <<"3", "2">> \o Zeros(18)
        /\ env.RECEIVER_ADDRESS \notin
               {"0x3f124c700fb5e741f128e28985267d44f56b242f",
                "0x0b6e07c5ead5596c1f26ca2f6b97050cec853671"} =>
                   calls[i].to # contractAddr

C22_Witness ==
    /\ Len(calls) = 2
    /\ calls[2].kind = "testTransfer"
    /\ calls[2].status = "ok"
    /\ calls[2].to = "0xreceiver"
    /\ Len(calls[2].value) = 13

\* C23: after configuration resolution the environment and the selected
\* contract address do not change; the sender address, the balance and the
\* intent response do not change once they exist; the deposit carries the
\* payload of the response as it was received.
C23_NothingMutatedAfterCreation ==
    /\ [][env' = env]_vars
    /\ [][pc # "ResolveConfig" => contractAddr' = contractAddr]_vars
    /\ [][sender # Undefined => sender' = sender]_vars
    /\ [][balWei # <<>> => balWei' = balWei]_vars
    /\ [][intent # <<>> => intent' = intent]_vars
    /\ [](\A i \in CallsOfKind("deposit") :
            /\ intent # <<>>
            /\ intent[1].hasEthereum =>
                   calls[i].data = intent[1].unsigned_transaction)

C23_Witness ==
    /\ pc = "Done"
    /\ env.NETWORK = "mainnet"
    /\ contractAddr = "0x3f124c700fb5e741f128e28985267d44f56b242f"
    /\ sender = "0xsender"
    /\ intent # <<>>
    /\ intent[1].contract_address = "0x0b6e07c5ead5596c1f26ca2f6b97050cec853671"

\* C24 as stated: with an unrecognized network the diagnostic is the only
\* line printed before the exit with status 0.
C24_OnlyDiagnosticPrinted ==
    (env.NETWORK \notin {"mainnet", "holesky"} /\ pc = "Exited") =>
        /\ out = <<NotSupportedLine(env.NETWORK)>>
        /\ exitStatus = <<0>>

\* C24 amended: with an unrecognized network the run prints the start-up
\* banner, then the "Network <id> not supported" diagnostic, and nothing else
\* before exiting with status 0.
C24_BannerThenDiagnostic ==
    env.NETWORK \notin {"mainnet", "holesky"} =>
        IF pc = "ResolveConfig"
        THEN out = <<"banner">> /\ exitStatus = <<>>
        ELSE /\ pc = "Exited"
             /\ exitStatus = <<0>>
             /\ Len(out) = 2
             /\ out[1] = "banner"
             /\ out[2] = "Network " \o env.NETWORK \o " not supported"
             /\ env.NETWORK = "goerli" => out[2] = "Network goerli not supported"

C24_Witness ==
    /\ env.NETWORK = "goerli"
    /\ pc = "Exited"
    /\ out = <<"banner", "Network goerli not supported">>
    /\ exitStatus = <<0>>

\* C25: on a known network configuration resolution always goes on to the
\* next state, whatever the keys and the receiver address are; a private key
\* that is malformed, empty or absent aborts the run with status 1 before the
\* account exists and before any call; with a valid private key the run is
\* aborted only by a failed call.
C25_OnlyNetworkValidated ==
    /\ [][(pc = "ResolveConfig" /\ env.NETWORK \in {"mainnet", "holesky"}) =>
            /\ pc' = "QueryBalance"
            /\ exitStatus' = <<>>
            /\ out' = out]_vars
    /\ [](pc = "ResolveConfig" => ENABLED ResolveConfig)
    /\ []((/\ env.NETWORK \in {"mainnet", "holesky"}
           /\ env.PRIVATE_KEY \in {"malformed", "", Undefined}
           /\ pc # "ResolveConfig") =>
              /\ calls = <<>>
              /\ sender = Undefined
              /\ pc \in {"QueryBalance", "Aborted"}
              /\ pc = "Aborted" => exitStatus = <<1>>)
    /\ []((env.PRIVATE_KEY = "0xprivkey" /\ pc = "Aborted") =>
              /\ calls # <<>>
              /\ calls[Len(calls)].status = "failed")

C25_Witness ==
    /\ env = [NETWORK |-> "holesky", EXECUTION_API_KEY |-> "",
              STAKING_API_KEY |-> "", PRIVATE_KEY |-> "",
              RECEIVER_ADDRESS |-> ""]
    /\ visited = <<"ResolveConfig", "QueryBalance">>
    /\ pc = "Aborted"
    /\ calls = <<>>

\* C26: once the balance is known the first prompt has been presented
\* whatever the balance is; after a yes the test transfer, the create-intent
\* request and the deposit of 32 ether are issued; the run ends early only on
\* a declined confirmation and is aborted only by a failed call.
C26_BalanceNeverGates ==
    balWei # <<>> =>
        /\ balWei[1] \in Balances
        /\ prompts # <<>>
        /\ prompts[1] = "send test transfer"
        /\ pc = "ConfirmTestTransfer" => ENABLED AnswerTestTransfer
        /\ pc = "SendTestTransfer" => ENABLED SendTestTransfer
        /\ FlowGoesOn
        /\ (shouldSend = "yes" /\ pc # "SendTestTransfer") =>
               CallsOfKind("testTransfer") # {}
        /\ (shouldCreateUnsigned = "yes" /\ pc # "CreateIntent") =>
               CallsOfKind("createIntent") # {}
        /\ (shouldSignAndSend = "yes" /\ pc # "SignAndBroadcast") =>
               \E i \in CallsOfKind("deposit") :
                   calls[i].value = <<"3", "2">> \o Zeros(18)
        /\ pc = "Exited" =>
               shouldCreateUnsigned = "no" \/ shouldSignAndSend = "no"
        /\ pc = "Aborted" =>
               /\ calls[Len(calls)].status = "failed"
               /\ calls[Len(calls)].kind \in
                      {"testTransfer", "createIntent", "deposit"}

C26_Witness ==
    /\ balWei = << <<"0">> >>
    /\ prompts = ThreePrompts
    /\ Len(calls) = 4
    /\ calls[2].kind = "testTransfer"
    /\ calls[4].kind = "deposit"
    /\ calls[4].status = "failed"
    /\ pc = "Aborted"

\* C27: the execution RPC calls, the selection of the contract address and
\* the path parameter of the create-intent request all use the configured
\* network; the deposit goes to the network, and to the contract of the
\* network, its intent was created for.
C27_OneNetworkPerRun ==
    /\ \A i \in 1..Len(calls) :
           calls[i].kind \in {"getBalance", "testTransfer", "deposit"} =>
               calls[i].network = env.NETWORK
    /\ contractAddr # "" =>
           /\ env.NETWORK = "mainnet" <=>
                  contractAddr = "0x3f124c700fb5e741f128e28985267d44f56b242f"
           /\ env.NETWORK = "holesky" <=>
                  contractAddr = "0x0b6e07c5ead5596c1f26ca2f6b97050cec853671"
    /\ \A j \in CallsOfKind("createIntent") :
           calls[j].args[2].network = env.NETWORK
    /\ \A i \in CallsOfKind("deposit") :
           \E j \in CallsOfKind("createIntent") :
               /\ j < i
               /\ calls[i].network = calls[j].args[2].network
               /\ calls[i].to = ContractAddrTable(calls[j].args[2].network)

C27_Witness ==
    /\ env.NETWORK = "holesky"
    /\ Len(calls) = 3
    /\ calls[1].network = "holesky"
    /\ calls[2].kind = "createIntent"
    /\ calls[2].args[2].network = "holesky"
    /\ calls[3].kind = "deposit"
    /\ calls[3].network = "holesky"

DigitValue(c) == CHOOSE v \in 0..9 : Digits[v + 1] = c

RECURSIVE AddDigits(_, _, _)
\* the sum of two strings of digits of the same length and a carry
AddDigits(a, b, carry) ==
    IF a = <<>>
    THEN IF carry = 0 THEN <<>> ELSE <<Digits[carry + 1]>>
    ELSE LET sum == DigitValue(a[Len(a)]) + DigitValue(b[Len(b)]) + carry
         IN  AddDigits(SubSeq(a, 1, Len(a) - 1), SubSeq(b, 1, Len(b) - 1),
                       sum \div 10) \o <<Digits[(sum % 10) + 1]>>

\* the sum of two naturals written in decimal
AddDecimal(a, b) ==
    LET n == IF Len(a) >= Len(b) THEN Len(a) ELSE Len(b)
    IN  AddDigits(PadStart(a, n), PadStart(b, n), 0)

\* a <= b for two naturals written in decimal without leading zeros
LeqDecimal(a, b) ==
    \/ Len(a) < Len(b)
    \/ /\ Len(a) = Len(b)
       /\ \/ a = b
          \/ \E i \in 1..Len(a) :
                 /\ SubSeq(a, 1, i - 1) = SubSeq(b, 1, i - 1)
                 /\ DigitValue(a[i]) < DigitValue(b[i])

\* the transactions handed to sendTransaction
Transactions ==
    {i \in 1..Len(calls) : calls[i].kind \in {"testTransfer", "deposit"}}

RECURSIVE ValueSentUpTo(_)
\* the wei carried by the transactions among the first n calls
ValueSentUpTo(n) ==
    IF n = 0 THEN <<"0">>
    ELSE IF n \in Transactions
         THEN AddDecimal(ValueSentUpTo(n - 1), calls[n].value)
         ELSE ValueSentUpTo(n - 1)

TotalSent == ValueSentUpTo(Len(calls))

\* C28: at most one test transfer and one deposit are broadcast, so at most
\* two transactions, carrying at most 10^12 + 32 * 10^18 wei together; the
\* deposit follows a create-intent call that returned successfully; the log
\* of calls only grows and a completed call is never altered, so nothing
\* takes back a test transfer, whatever fails or is declined afterwards.
C28_AtMostTwoTransactions ==
    /\ [](/\ Cardinality(CallsOfKind("testTransfer")) <= 1
          /\ Cardinality(CallsOfKind("deposit")) <= 1
          /\ Cardinality(Transactions) <= 2
          /\ LeqDecimal(TotalSent,
                 <<"3", "2", "0", "0", "0", "0", "0", "1">> \o Zeros(12))
          /\ \A i \in CallsOfKind("deposit") :
                 \E j \in CallsOfKind("createIntent") :
                     j < i /\ calls[j].status = "ok"
          /\ \A i \in Transactions :
                 calls[i].from = sender)
    /\ [][/\ Len(calls') >= Len(calls)
          /\ \A i \in 1..Len(calls) :
                 /\ calls'[i].kind = calls[i].kind
                 /\ calls'[i].to = calls[i].to
                 /\ calls'[i].value = calls[i].value
                 /\ calls[i].status # "pending" => calls'[i] = calls[i]]_vars

C28_Witness ==
    /\ Len(calls) = 4
    /\ calls[2].kind = "testTransfer"
    /\ calls[2].status = "ok"
    /\ calls[4].kind = "deposit"
    /\ calls[4].status = "failed"
    /\ TotalSent = <<"3", "2", "0", "0", "0", "0", "0", "1">> \o Zeros(12)
    /\ pc = "Aborted"

====
